---- MODULE Spec2Model ----
(***************************************************************************)
(* Model of TorchGradientOptimizer (src/optimizers/nonlearnable.py): the   *)
(* restore loop, the closure handed to the optimizer, and the tensors the  *)
(* loop reads and writes.  Tensors are scalars; a tensor is a pair of its  *)
(* storage (the caller's observation storage, or a private one) and its    *)
(* content.  The collaborators (degradation, prior, projection, optimizer) *)
(* are fixed when the object is built and are drawn from small families.   *)
(***************************************************************************)
EXTENDS Integers, Sequences, FiniteSets, TLC

\* ---------------------------------------------------------------- bounds
MaxSteps == 2          \* largest configured num_steps
MaxClosureCalls == 2   \* most closure invocations of one optimizer.step
MaxCalls == 2          \* restore calls issued by the caller on one object
MaxVal == 1            \* observation contents range over -1..MaxVal

VARIABLES
    num_steps,              \* self.num_steps
    prior_weight,           \* self.prior_weight
    optimizer_hyperparams,  \* self.optimizer_hyperparams (lr in halves)
    collab,                 \* behaviour of the injected collaborators
    degraded,               \* content of the caller's degraded_images storage
    observed,               \* content of degraded_images when restore was called
    callNo,                 \* restore calls started so far
    returned,               \* outcome of every restore call that has ended
    pc,                     \* position of the running restore call
    i,                      \* loop index of restore (iterations completed)
    k,                      \* closure invocations made by the current step
    latent_images,          \* local latent_images: tensor, then nn.Parameter
    optimizer,              \* local optimizer instance
    grad_enabled,           \* th.is_grad_enabled() seen by the last closure call
    loss,                   \* value the last closure call returned
    error,                  \* exception that ended the call
    log                     \* collaborator calls of the running restore call

vars == <<num_steps, prior_weight, optimizer_hyperparams, collab, degraded,
          observed, callNo, returned, pc, i, k, latent_images, optimizer,
          grad_enabled, loss, error, log>>

config == <<num_steps, prior_weight, optimizer_hyperparams, collab>>

\* ------------------------------------------------------------ collaborators
InitKinds == {"same_tensor", "clone", "zeros"}
ProjKinds == {"identity", "clamp", "negate"}
GradPolicies == {"always", "never", "alternate"}

\* degradation.init_latent_images(degraded_images): the tensor it returns.
\* "same_tensor" returns its argument, the others a tensor of their own.
init_latent_images(kind, obs) ==
    CASE kind = "same_tensor" -> [alias |-> TRUE, data |-> obs]
      [] kind = "clone"       -> [alias |-> FALSE, data |-> obs]
      [] OTHER                -> [alias |-> FALSE, data |-> 0]

\* the projection function: identity, clipping to [0, 1], sign flip.
projection_function(kind, x) ==
    CASE kind = "identity" -> x
      [] kind = "clamp"    -> IF x < 0 THEN 0 ELSE IF x > 1 THEN 1 ELSE x
      [] OTHER             -> 0 - x

\* self.project(images): the base class applies the projection function.
project(kind, x) == projection_function(kind, x)

\* self.objective(latent, degraded) = fidelity + prior_weight * prior, with
\* fidelity the squared error to the observation and prior the squared norm.
objective(x, obs, w) == (x - obs) * (x - obs) + w * x * x

\* d objective / d latent, what loss.backward() adds to latent_images.grad.
objective_grad(x, obs, w) == 2 * (x - obs) + w * 2 * x

\* th.is_grad_enabled() at the n-th closure invocation of a step, as the
\* optimizer's step sets it up around its calls of the closure.
is_grad_enabled(policy, n) ==
    CASE policy = "always" -> TRUE
      [] policy = "never"  -> FALSE
      [] OTHER             -> n % 2 = 1

\* ------------------------------------------------------------------ values
NoGrad == [set |-> FALSE, val |-> 0]
NoTensor == [kind |-> "none", id |-> 0, alias |-> FALSE, data |-> 0,
             requires_grad |-> FALSE, grad |-> NoGrad]
NoOptimizer == [params |-> <<>>, lr |-> 0, momentum |-> 0, buf |-> 0]
NoEstimate == [ok |-> FALSE, alias |-> FALSE, data |-> 0]

\* a collaborator call that returned, and one that raised
Ev(op, a, r) == [op |-> op, in |-> a, out |-> r, raised |-> FALSE]
EvRaise(op, a) == [op |-> op, in |-> a, out |-> 0, raised |-> TRUE]

\* content of a tensor: tensors on the caller's storage read that storage
Content(t) == IF t.alias THEN degraded ELSE t.data

\* .grad after backward(): autograd adds to what is stored
Accumulate(g, v) ==
    IF g.set THEN [set |-> TRUE, val |-> g.val + v] ELSE [set |-> TRUE, val |-> v]

Positions == {"idle", "init_params", "init_optimizer", "loop", "in_step",
              "update", "project", "done", "raised"}

\* ------------------------------------------------------------------- Init
Init ==
    /\ num_steps \in 0..MaxSteps
    /\ prior_weight \in {0, 1}
    /\ optimizer_hyperparams \in [lr : {-1, 1}, momentum : {0, 1}]
    /\ collab \in [init : InitKinds, proj : ProjKinds, differentiable : BOOLEAN,
                   closure_calls : 0..MaxClosureCalls, grad_policy : GradPolicies]
    /\ degraded \in (-1)..MaxVal
    /\ observed = degraded
    /\ callNo = 0
    /\ returned = <<>>
    /\ pc = "idle"
    /\ i = 0
    /\ k = 0
    /\ latent_images = NoTensor
    /\ optimizer = NoOptimizer
    /\ grad_enabled = TRUE
    /\ loss = 0
    /\ error = "none"
    /\ log = <<>>

\* variant: the exception is caught and the current estimate is returned
Raise_PartialResult(e) ==
    /\ pc' = "done"
    /\ error' = e
    /\ returned' = Append(returned, [ok |-> TRUE, alias |-> latent_images.alias,
                                     data |-> Content(latent_images)])

\* an exception leaves restore: the call ends without an estimate
Raise(e) ==
    /\ pc' = "raised"
    /\ error' = e
    /\ returned' = Append(returned, NoEstimate)

\* ---------------------------------------------------------------- restore
\* variant: the estimate of the previous call is kept on the object and the
\* next call starts from it
CallRestore_WarmStart ==
    /\ pc \in {"idle", "done", "raised"}
    /\ callNo < MaxCalls
    /\ callNo' = callNo + 1
    /\ observed' = degraded
    /\ i' = 0
    /\ k' = 0
    /\ optimizer' = NoOptimizer
    /\ grad_enabled' = TRUE
    /\ loss' = 0
    /\ LET t == IF latent_images.kind = "parameter"
                THEN [alias |-> FALSE, data |-> Content(latent_images)]
                ELSE init_latent_images(collab.init, degraded) IN
       \E raises \in BOOLEAN :
          IF raises
          THEN /\ Raise("init_latent_images")
               /\ log' = <<EvRaise("init_latent_images", degraded)>>
               /\ latent_images' = NoTensor
          ELSE /\ pc' = "init_params"
               /\ error' = "none"
               /\ log' = <<Ev("init_latent_images", degraded, t.data)>>
               /\ latent_images' = [NoTensor EXCEPT !.kind = "tensor",
                                      !.alias = t.alias, !.data = t.data]
               /\ UNCHANGED returned
    /\ UNCHANGED <<config, degraded>>

\* line 81: the caller invokes restore(degraded_images); init_latent_images
CallRestore ==
    /\ pc \in {"idle", "done", "raised"}
    /\ callNo < MaxCalls
    /\ callNo' = callNo + 1
    /\ observed' = degraded
    /\ i' = 0
    /\ k' = 0
    /\ optimizer' = NoOptimizer
    /\ grad_enabled' = TRUE
    /\ loss' = 0
    /\ LET t == init_latent_images(collab.init, degraded) IN
       \E raises \in BOOLEAN :
          IF raises
          THEN /\ Raise("init_latent_images")
               /\ log' = <<EvRaise("init_latent_images", degraded)>>
               /\ latent_images' = NoTensor
          ELSE /\ pc' = "init_params"
               /\ error' = "none"
               /\ log' = <<Ev("init_latent_images", degraded, t.data)>>
               /\ latent_images' = [NoTensor EXCEPT !.kind = "tensor",
                                      !.alias = t.alias, !.data = t.data]
               /\ UNCHANGED returned
    /\ UNCHANGED <<config, degraded>>

\* variant: the parameter is built from a zero tensor of the same shape
InitializeParams_Zeros ==
    /\ pc = "init_params"
    /\ latent_images' = [latent_images EXCEPT !.kind = "parameter", !.id = callNo,
                           !.alias = FALSE, !.data = 0,
                           !.requires_grad = TRUE, !.grad = NoGrad]
    /\ log' = Append(log, Ev("wrap", Content(latent_images), callNo))
    /\ pc' = "init_optimizer"
    /\ UNCHANGED <<config, degraded, observed, callNo, returned, i, k, optimizer,
                   grad_enabled, loss, error>>

\* lines 31-40 / 82: nn.Parameter(images) keeps the storage of images
InitializeParams ==
    /\ pc = "init_params"
    /\ latent_images' = [latent_images EXCEPT !.kind = "parameter", !.id = callNo,
                           !.requires_grad = TRUE, !.grad = NoGrad]
    /\ log' = Append(log, Ev("wrap", Content(latent_images), callNo))
    /\ pc' = "init_optimizer"
    /\ UNCHANGED <<config, degraded, observed, callNo, returned, i, k, optimizer,
                   grad_enabled, loss, error>>

\* variant: the optimizer is built without the caller's hyperparameters
InitializeOptimizer_Unchecked ==
    /\ pc = "init_optimizer"
    /\ log' = Append(log, Ev("optimizer_ctor", latent_images.id, 0))
    /\ optimizer' = [params |-> <<latent_images.id>>, lr |-> 1, momentum |-> 0,
                     buf |-> 0]
    /\ pc' = "loop"
    /\ UNCHANGED <<config, degraded, observed, callNo, returned, i, k,
                   latent_images, grad_enabled, loss, error>>

\* lines 42-50 / 83: self.optimizer([images], **self.optimizer_hyperparams);
\* the optimizer's constructor rejects a negative learning rate
InitializeOptimizer ==
    /\ pc = "init_optimizer"
    /\ IF optimizer_hyperparams.lr < 0
       THEN /\ Raise("optimizer_ctor")
            /\ log' = Append(log, EvRaise("optimizer_ctor", latent_images.id))
            /\ UNCHANGED optimizer
       ELSE /\ log' = Append(log, Ev("optimizer_ctor", latent_images.id, 0))
            /\ optimizer' = [params |-> <<latent_images.id>>,
                             lr |-> optimizer_hyperparams.lr,
                             momentum |-> optimizer_hyperparams.momentum,
                             buf |-> 0]
            /\ pc' = "loop"
            /\ UNCHANGED <<returned, error>>
    /\ UNCHANGED <<config, degraded, observed, callNo, i, k, latent_images,
                   grad_enabled, loss>>

\* variant: the loop runs one iteration short, range(self.num_steps - 1)
LoopCondition_OffByOne == i < num_steps - 1

\* variant: the loop runs one iteration more, range(self.num_steps + 1)
LoopCondition_OneMore == i < num_steps + 1

\* line 84: for i in range(self.num_steps) has another iteration to run
LoopCondition == i < num_steps

\* variant: a new optimizer is constructed at the head of every iteration
PerformStep_Rebuilds ==
    /\ pc = "loop"
    /\ LoopCondition
    /\ k' = 0
    /\ optimizer' = [optimizer EXCEPT !.buf = 0]
    /\ \E raises \in BOOLEAN :
          IF raises
          THEN /\ Raise("step")
               /\ log' = Append(Append(log, Ev("optimizer_ctor", latent_images.id, 0)),
                                EvRaise("step", Content(latent_images)))
          ELSE /\ pc' = "in_step"
               /\ log' = Append(Append(log, Ev("optimizer_ctor", latent_images.id, 0)),
                                Ev("step", Content(latent_images), i + 1))
               /\ UNCHANGED <<returned, error>>
    /\ UNCHANGED <<config, degraded, observed, callNo, i, latent_images,
                   grad_enabled, loss>>

\* lines 84-85, 70: next iteration, perform_step calls optimizer.step(closure)
PerformStep ==
    /\ pc = "loop"
    /\ LoopCondition
    /\ k' = 0
    /\ \E raises \in BOOLEAN :
          IF raises
          THEN /\ Raise("step")
               /\ log' = Append(log, EvRaise("step", Content(latent_images)))
          ELSE /\ pc' = "in_step"
               /\ log' = Append(log, Ev("step", Content(latent_images), i + 1))
               /\ UNCHANGED <<returned, error>>
    /\ UNCHANGED <<config, degraded, observed, callNo, i, latent_images, optimizer,
                   grad_enabled, loss>>

\* variant: the closure never clears the stored gradient
zero_grad_Missing(ge, g) == g

\* lines 64-65: if th.is_grad_enabled(): optimizer.zero_grad()
zero_grad(ge, g) == IF ge THEN NoGrad ELSE g

\* variant: the loss is computed once per step and handed out again
evaluate_Cached(x, log0) ==
    IF k = 0
    THEN [loss |-> objective(x, degraded, prior_weight),
          log |-> Append(log0, Ev("objective", x,
                                  objective(x, degraded, prior_weight)))]
    ELSE [loss |-> loss, log |-> log0]

\* variant: the objective is evaluated but the loss of the previous
\* invocation is what the closure hands back
evaluate_Stale(x, log0) ==
    [loss |-> loss,
     log |-> Append(log0, Ev("objective", x, objective(x, degraded, prior_weight)))]

\* line 66: loss = self.objective(latent_images, degraded_images)
evaluate(x, log0) ==
    [loss |-> objective(x, degraded, prior_weight),
     log |-> Append(log0, Ev("objective", x, objective(x, degraded, prior_weight)))]

\* variant: loss.backward() is called whatever the loss
runs_backward_Always(requires_grad) == TRUE

\* line 67: if loss.requires_grad
runs_backward(requires_grad) == requires_grad

\* lines 63-69: one invocation of the closure by the optimizer.  backward()
\* on a loss that does not require a gradient raises; on one that does it
\* adds the gradient at the current content to latent_images.grad.
closure ==
    /\ pc = "in_step"
    /\ k < collab.closure_calls
    /\ LET ge == is_grad_enabled(collab.grad_policy, k + 1)
           x == Content(latent_images)
           g0 == zero_grad(ge, latent_images.grad)
           log0 == IF ge THEN Append(log, Ev("zero_grad", 0, 0)) ELSE log
           ev == evaluate(x, log0)
           requires_grad == ge /\ collab.differentiable /\ latent_images.requires_grad
       IN
       /\ grad_enabled' = ge
       /\ \/ /\ Raise("objective")
             /\ log' = Append(log0, EvRaise("objective", x))
             /\ latent_images' = [latent_images EXCEPT !.grad = g0]
             /\ UNCHANGED <<k, loss>>
          \/ /\ runs_backward(requires_grad)
             /\ Raise("backward")
             /\ log' = Append(ev.log, EvRaise("backward", x))
             /\ latent_images' = [latent_images EXCEPT !.grad = g0]
             /\ UNCHANGED <<k, loss>>
          \/ /\ runs_backward(requires_grad) => requires_grad
             /\ log' = IF runs_backward(requires_grad)
                       THEN Append(ev.log, Ev("backward", x,
                                              objective_grad(x, degraded, prior_weight)))
                       ELSE ev.log
             /\ latent_images' =
                   [latent_images EXCEPT !.grad =
                       IF runs_backward(requires_grad)
                       THEN Accumulate(g0, objective_grad(x, degraded, prior_weight))
                       ELSE g0]
             /\ loss' = ev.loss
             /\ k' = k + 1
             /\ pc' = "update"
             /\ UNCHANGED <<returned, error>>
    /\ UNCHANGED <<config, degraded, observed, callNo, i, optimizer>>

\* line 70: the optimizer updates its parameter in place from the stored
\* gradient, p -= lr * buf with buf = momentum * buf + grad (a parameter
\* without gradient is skipped).  Learning rates are counted in halves, and
\* gradients of the objective are even, so the division is exact.
OptimizerUpdate ==
    /\ pc = "update"
    /\ IF latent_images.grad.set
       THEN LET b == optimizer.momentum * optimizer.buf + latent_images.grad.val
                x == Content(latent_images) - (optimizer.lr * b) \div 2
            IN /\ optimizer' = [optimizer EXCEPT !.buf = b]
               /\ IF latent_images.alias
                  THEN /\ degraded' = x
                       /\ UNCHANGED latent_images
                  ELSE /\ latent_images' = [latent_images EXCEPT !.data = x]
                       /\ UNCHANGED degraded
       ELSE UNCHANGED <<optimizer, latent_images, degraded>>
    /\ pc' = "in_step"
    /\ UNCHANGED <<config, observed, callNo, returned, i, k, grad_enabled, loss,
                   error, log>>

\* lines 70-71: optimizer.step returns, perform_step returns latent_images
StepReturn ==
    /\ pc = "in_step"
    /\ k = collab.closure_calls
    /\ pc' = "project"
    /\ UNCHANGED <<config, degraded, observed, callNo, returned, i, k,
                   latent_images, optimizer, grad_enabled, loss, error, log>>

\* variant: the projection is computed but its result is not written back
Project_NoWriteBack ==
    /\ pc = "project"
    /\ LET x == Content(latent_images)
           y == project(collab.proj, x)
       IN \E raises \in BOOLEAN :
          IF raises
          THEN /\ Raise("project")
               /\ log' = Append(log, EvRaise("project", x))
               /\ UNCHANGED <<latent_images, i>>
          ELSE /\ UNCHANGED latent_images
               /\ log' = Append(log, Ev("project", x, y))
               /\ i' = i + 1
               /\ pc' = "loop"
               /\ UNCHANGED <<returned, error>>
    /\ UNCHANGED <<config, degraded, observed, callNo, k, optimizer, grad_enabled,
                   loss>>

\* variant: the projected content is wrapped in a new parameter,
\* latent_images = nn.Parameter(self.project(latent_images.data))
Project_Rewrap ==
    /\ pc = "project"
    /\ LET x == Content(latent_images)
           y == project(collab.proj, x)
       IN \E raises \in BOOLEAN :
          IF raises
          THEN /\ Raise("project")
               /\ log' = Append(log, EvRaise("project", x))
               /\ UNCHANGED <<latent_images, i>>
          ELSE /\ latent_images' =
                     [latent_images EXCEPT
                        !.id = @ + MaxCalls,
                        !.grad = NoGrad,
                        !.data = y,
                        !.alias = IF collab.proj = "identity" THEN @ ELSE FALSE]
               /\ log' = Append(log, Ev("project", x, y))
               /\ i' = i + 1
               /\ pc' = "loop"
               /\ UNCHANGED <<returned, error>>
    /\ UNCHANGED <<config, degraded, observed, callNo, k, optimizer, grad_enabled,
                   loss>>

\* line 86: latent_images.data = self.project(latent_images.data)
Project ==
    /\ pc = "project"
    /\ LET x == Content(latent_images)
           y == project(collab.proj, x)
       IN \E raises \in BOOLEAN :
          IF raises
          THEN /\ Raise("project")
               /\ log' = Append(log, EvRaise("project", x))
               /\ UNCHANGED <<latent_images, i>>
          ELSE /\ latent_images' =
                     [latent_images EXCEPT
                        !.data = y,
                        !.alias = IF collab.proj = "identity" THEN @ ELSE FALSE]
               /\ log' = Append(log, Ev("project", x, y))
               /\ i' = i + 1
               /\ pc' = "loop"
               /\ UNCHANGED <<returned, error>>
    /\ UNCHANGED <<config, degraded, observed, callNo, k, optimizer, grad_enabled,
                   loss>>

\* variant: the estimate is projected once more on the way out
Return_Projected ==
    /\ pc = "loop"
    /\ ~LoopCondition
    /\ returned' = Append(returned,
                          [ok |-> TRUE,
                           alias |-> latent_images.alias /\ collab.proj = "identity",
                           data |-> project(collab.proj, Content(latent_images))])
    /\ pc' = "done"
    /\ UNCHANGED <<config, degraded, observed, callNo, i, k, latent_images,
                   optimizer, grad_enabled, loss, error, log>>

\* line 87: return latent_images.data
Return ==
    /\ pc = "loop"
    /\ ~LoopCondition
    /\ returned' = Append(returned, [ok |-> TRUE, alias |-> latent_images.alias,
                                     data |-> Content(latent_images)])
    /\ pc' = "done"
    /\ UNCHANGED <<config, degraded, observed, callNo, i, k, latent_images,
                   optimizer, grad_enabled, loss, error, log>>

Next ==
    \/ CallRestore
    \/ InitializeParams
    \/ InitializeOptimizer
    \/ PerformStep
    \/ closure
    \/ OptimizerUpdate
    \/ StepReturn
    \/ Project
    \/ Return

Spec == Init /\ [][Next]_vars

\* the steps of a running restore call: everything but the caller's next call
Running ==
    \/ InitializeParams
    \/ InitializeOptimizer
    \/ PerformStep
    \/ closure
    \/ OptimizerUpdate
    \/ StepReturn
    \/ Project
    \/ Return

\* restore is synchronous code: a call that has started keeps running until
\* it returns or raises; when the caller calls again is up to the caller
FairSpec == Spec /\ WF_vars(Running)

TypeOK ==
    /\ pc \in Positions
    /\ i \in 0..num_steps
    /\ k \in 0..collab.closure_calls
    /\ callNo \in 0..MaxCalls
    /\ Len(returned) <= callNo
\* ----------------------------------------------------------------- claims
\* the events of the running call that are calls of op
Calls(op) == SelectSeq(log, LAMBDA e : e.op = op)
StepsAndProjections == SelectSeq(log, LAMBDA e : e.op \in {"step", "project"})
Alternating(s) ==
    \A n \in 1..Len(s) : s[n].op = IF n % 2 = 1 THEN "step" ELSE "project"

\* the outcome of the call that has just ended (pc is "done" or "raised")
Outcome == returned[callNo]

\* C1: a restore call whose collaborators all return makes exactly num_steps
\* optimizer.step calls and num_steps projection calls, alternating step,
\* project, step, project, ..., and returns what the last projection left.
C1_StepsInterleaveProjections ==
    /\ Alternating(StepsAndProjections)
    /\ pc = "done" =>
          /\ Len(Calls("step")) = num_steps
          /\ Len(Calls("project")) = num_steps
          /\ Outcome.ok
          /\ num_steps > 0 =>
                Content(Outcome) = Calls("project")[num_steps].out

C1_Witness ==
    /\ pc = "done"
    /\ num_steps = 2
    /\ Len(StepsAndProjections) = 4
    /\ Calls("project")[2].out # Calls("project")[2].in

\* C2: with num_steps = 0 restore returns the very tensor that
\* init_latent_images produced, and neither the projection, nor the
\* objective, nor optimizer.step is ever called.
C2_ZeroStepIdentity ==
    (num_steps = 0 /\ pc \notin {"idle"}) =>
        /\ Len(Calls("project")) = 0
        /\ Len(Calls("objective")) = 0
        /\ Len(Calls("step")) = 0
        /\ pc = "done" =>
              /\ Outcome.ok
              /\ Content(Outcome) = log[1].out
              /\ Outcome.alias = init_latent_images(collab.init, observed).alias
              /\ Content(Outcome) = init_latent_images(collab.init, observed).data

C2_Witness ==
    /\ num_steps = 0
    /\ pc = "done"
    /\ project(collab.proj, Content(Outcome)) # Content(Outcome)

\* the projection is idempotent on the values a run can produce
Idempotent(kind) ==
    \A x \in (-40)..40 : project(kind, project(kind, x)) = project(kind, x)

\* C3 as stated: with an idempotent projection the returned estimate is a
\* fixed point of the projection, for every num_steps.
C3_Original ==
    (pc = "done" /\ Idempotent(collab.proj)) =>
        project(collab.proj, Content(Outcome)) = Content(Outcome)

\* C3: with an idempotent projection and num_steps >= 1 the returned
\* estimate is a fixed point of the projection.
C3_ProjectedOutput ==
    (pc = "done" /\ Idempotent(collab.proj) /\ num_steps >= 1) =>
        project(collab.proj, Content(Outcome)) = Content(Outcome)

C3_Witness ==
    /\ pc = "done"
    /\ collab.proj = "clamp"
    /\ num_steps >= 1
    /\ Calls("project")[num_steps].in # Calls("project")[num_steps].out
\* the gradient of the objective at the current latent content
FreshGrad ==
    [set |-> TRUE,
     val |-> objective_grad(Content(latent_images), degraded, prior_weight)]

\* a closure invocation that returned to the optimizer
ClosureReturns == pc = "in_step" /\ pc' = "update"

\* C4 as stated: after every closure invocation the stored gradient is
\* determined by the current latent content (cleared, or the gradient there),
\* whether or not gradient computation was enabled.
C4_Original ==
    pc = "update" => latent_images.grad \in {NoGrad, FreshGrad}

\* C4: after a closure invocation made with gradient computation enabled the
\* stored gradient is the gradient at the current latent content (cleared
\* when the loss requires no gradient); an invocation made with gradient
\* computation disabled leaves the stored gradient as it found it.
C4_GradientIsolation ==
    /\ [](pc = "update" /\ grad_enabled =>
             latent_images.grad =
                 IF collab.differentiable THEN FreshGrad ELSE NoGrad)
    /\ [][ClosureReturns /\ ~grad_enabled' =>
             latent_images'.grad = latent_images.grad]_vars

C4_Witness ==
    /\ pc = "update"
    /\ k >= 2
    /\ grad_enabled
    /\ Len(Calls("backward")) >= 2
    /\ latent_images.grad = FreshGrad
    /\ Calls("backward")[Len(Calls("backward")) - 1].out
          \notin {0, latent_images.grad.val}

\* objective evaluations since the running step began
ObjectiveCallsInStep ==
    LET steps == {n \in DOMAIN log : log[n].op = "step"}
    IN Cardinality({n \in DOMAIN log :
                      /\ log[n].op = "objective"
                      /\ \A m \in steps : m < n})

\* C5 as stated: every completed step has evaluated the objective at least
\* once, whatever number of times the optimizer calls the closure.
C5_Original ==
    pc = "project" => ObjectiveCallsInStep >= 1

\* C5: a step evaluates the objective once per closure invocation, so a
\* completed step has evaluated it as often as the optimizer calls the
\* closure: at least once exactly when the optimizer calls it at all.
C5_ObjectivePerClosureCall ==
    /\ pc \in {"in_step", "update"} => ObjectiveCallsInStep = k
    /\ pc = "project" => ObjectiveCallsInStep = collab.closure_calls

C5_Witness ==
    /\ pc = "project"
    /\ i = 1
    /\ collab.closure_calls = 2
    /\ ObjectiveCallsInStep = 2
\* C6: restore leaves the content of the caller's degraded_images as it was
\* when restore was called, whatever init_latent_images returns.
C6_ObservationUnchanged ==
    pc = "done" => degraded = observed

\* C7: two restore calls on the same object with the same observation
\* tensor, one after the other, return identical results.
C7_Determinism ==
    \A a, b \in DOMAIN returned :
        (returned[a].ok /\ returned[b].ok) =>
            Content(returned[a]) = Content(returned[b])

\* the loss of the closure invocation that is next (or that just raised)
\* requires a gradient
LossRequiresGrad ==
    is_grad_enabled(collab.grad_policy, k + 1) /\ collab.differentiable

\* C8: a closure invocation whose loss requires no gradient and whose
\* objective returned does no backpropagation, raises nothing and hands the
\* loss it computed to the optimizer, which goes on with its step.
C8_NonDifferentiableTolerated ==
    /\ []((pc = "raised" /\ error = "backward") => LossRequiresGrad)
    /\ [][(/\ pc = "in_step"
           /\ k < collab.closure_calls
           /\ ~LossRequiresGrad
           /\ ~log'[Len(log')].raised)
          => /\ pc' = "update"
             /\ error' = error
             /\ returned' = returned
             /\ log'[Len(log')].op = "objective"
             /\ loss' = objective(Content(latent_images), degraded, prior_weight)
             /\ loss' = log'[Len(log')].out
             /\ latent_images'.grad \in {NoGrad, latent_images.grad}]_vars

C8_Witness ==
    /\ pc = "done"
    /\ ~collab.differentiable
    /\ collab.grad_policy = "always"
    /\ num_steps = 2
    /\ Len(Calls("objective")) >= 2
    /\ Len(Calls("backward")) = 0
    /\ Len(Calls("project")) = 2
    /\ Outcome.ok

\* C9: when a collaborator call raises, that call is the last thing the
\* restore call does: restore ends with the error and without an estimate,
\* no step or projection follows, and no iteration is attempted twice.
C9_ErrorsAbortRestore ==
    /\ [](\A n \in DOMAIN log :
             log[n].raised =>
                /\ n = Len(log)
                /\ pc = "raised"
                /\ error = log[n].op
                /\ Len(returned) = callNo
                /\ Outcome = NoEstimate)
    /\ [](\A n \in DOMAIN Calls("step") :
             ~Calls("step")[n].raised => Calls("step")[n].out = n)
    /\ [](Len(Calls("step")) <= i + 1 /\ Len(Calls("project")) <= i + 1)
    /\ [][pc = "raised" => (callNo' = callNo + 1 /\ Len(log') = 1)]_vars

C9_Witness ==
    /\ pc = "raised"
    /\ error = "project"
    /\ i = 0
    /\ num_steps = 2
    /\ Len(Calls("step")) = 1
    /\ Outcome = NoEstimate

\* C10: hyperparameters the optimizer rejects make the construction of the
\* optimizer raise: restore ends there, before any optimizer step, objective
\* evaluation or projection, also when num_steps = 0.
C10_MisconfigurationAtInit ==
    /\ [](optimizer_hyperparams.lr < 0 =>
             /\ pc \in {"idle", "init_params", "init_optimizer", "raised"}
             /\ Len(Calls("step")) = 0
             /\ Len(Calls("objective")) = 0
             /\ Len(Calls("project")) = 0
             /\ pc = "raised" =>
                   /\ Outcome = NoEstimate
                   /\ error \in {"init_latent_images", "optimizer_ctor"})
    /\ [][(pc = "init_optimizer" /\ optimizer_hyperparams.lr < 0) =>
             (pc' = "raised" /\ error' = "optimizer_ctor")]_vars

C10_Witness ==
    /\ pc = "raised"
    /\ error = "optimizer_ctor"
    /\ num_steps = 0
    /\ optimizer_hyperparams.lr < 0
    /\ Outcome = NoEstimate
\* the scenario of the fixed point: the initial estimate is the observation,
\* the objective is the squared error alone, the projection is the identity
\* and the optimizer is plain gradient descent
FixedPointScenario ==
    /\ collab.init \in {"same_tensor", "clone"}
    /\ prior_weight = 0
    /\ collab.differentiable
    /\ collab.proj = "identity"
    /\ optimizer_hyperparams.momentum = 0

\* C11: in the fixed-point scenario the latent equals the observation all
\* along the loop, and restore returns the observation, for every num_steps.
C11_FixedPoint ==
    FixedPointScenario =>
        /\ pc \in {"loop", "in_step", "update", "project"} =>
              Content(latent_images) = observed
        /\ pc = "done" => (Outcome.ok /\ Content(Outcome) = observed)

C11_Witness ==
    /\ FixedPointScenario
    /\ pc = "done"
    /\ num_steps >= 1
    /\ observed # 0
    /\ Len(Calls("backward")) >= num_steps
    /\ \A n \in DOMAIN Calls("backward") : Calls("backward")[n].out = 0
    /\ Content(Outcome) = observed
\* positions of restore from the head of the loop to the return
LoopPositions == {"loop", "in_step", "update", "project", "done"}

\* C12: a restore call calls init_latent_images once, then wraps once, then
\* constructs the optimizer once, all before the first step; the optimizer
\* is given the one parameter and the caller's hyperparameters, and stays
\* the optimizer of every step: none is constructed inside the loop.
C12_SingleBinding ==
    /\ [](pc # "idle" =>
             /\ Len(Calls("init_latent_images")) = 1
             /\ log[1].op = "init_latent_images"
             /\ Len(Calls("wrap")) <= 1
             /\ Len(Calls("optimizer_ctor")) <= 1
             /\ Len(log) >= 2 => log[2].op = "wrap"
             /\ Len(log) >= 3 => log[3].op = "optimizer_ctor")
    /\ [](pc \in LoopPositions =>
             /\ Len(log) >= 3
             /\ log[2].out = latent_images.id
             /\ log[3].in = latent_images.id
             /\ ~log[3].raised
             /\ optimizer.params = <<latent_images.id>>
             /\ optimizer.lr = optimizer_hyperparams.lr
             /\ optimizer.momentum = optimizer_hyperparams.momentum)
    /\ [][(pc \in LoopPositions /\ pc' \in LoopPositions) =>
             /\ optimizer'.params = optimizer.params
             /\ optimizer'.lr = optimizer.lr
             /\ optimizer'.momentum = optimizer.momentum
             /\ Len(Calls("optimizer_ctor"))' = 1]_vars

C12_Witness ==
    /\ pc = "done"
    /\ num_steps = 2
    /\ Len(Calls("step")) = 2
    /\ Len(Calls("optimizer_ctor")) = 1
    /\ optimizer.buf # 0
    /\ optimizer_hyperparams.momentum = 1
\* C13: from the construction of the optimizer to the return, the loop's
\* latent_images is the parameter the optimizer is bound to: perform_step
\* hands back the object it was given and the projection write-back changes
\* the content of that object only.
C13_ParameterIdentity ==
    /\ [](pc \in LoopPositions =>
             /\ latent_images.kind = "parameter"
             /\ latent_images.id = callNo
             /\ latent_images.requires_grad
             /\ optimizer.params = <<latent_images.id>>)
    /\ [][(pc \in LoopPositions /\ pc' \in LoopPositions) =>
             /\ latent_images'.id = latent_images.id
             /\ latent_images'.kind = latent_images.kind
             /\ optimizer'.params = <<latent_images'.id>>]_vars
    /\ [][(pc = "in_step" /\ pc' = "project") =>
             latent_images' = latent_images]_vars
    /\ [][(pc = "project" /\ pc' = "loop") =>
             latent_images' = [latent_images EXCEPT !.data = latent_images'.data,
                                                    !.alias = latent_images'.alias]]_vars

C13_Witness ==
    /\ pc = "loop"
    /\ i = 2
    /\ callNo = 2
    /\ collab.proj = "clamp"
    /\ Calls("project")[1].in # Calls("project")[1].out
    /\ optimizer.params = <<2>>
    /\ latent_images.id = 2
\* the calls one closure invocation adds to the log
ClosureEvents == SubSeq(log', Len(log) + 1, Len(log'))

\* the positions of the calls of op among the calls of one invocation
EventsAt(op) == {n \in DOMAIN ClosureEvents : ClosureEvents[n].op = op}

ContentNext == IF latent_images'.alias THEN degraded' ELSE latent_images'.data

\* C15: the projection of iteration i is applied to the content the
\* optimizer left after step i, its output becomes the latent content, and
\* that output is the content step i+1 and its first closure invocation
\* start from; after every completed iteration the latent content is an
\* output of the projection.
C15_ProjectionDataFlow ==
    /\ [][(pc = "in_step" /\ pc' = "project") =>
             ContentNext = Content(latent_images)]_vars
    /\ [][(pc = "project" /\ pc' = "loop") =>
             /\ log'[Len(log')] = Ev("project", Content(latent_images),
                                     project(collab.proj, Content(latent_images)))
             /\ ContentNext = project(collab.proj, Content(latent_images))]_vars
    /\ [](\A n \in DOMAIN Calls("step") :
             n >= 2 => Calls("step")[n].in = Calls("project")[n - 1].out)
    /\ []((pc = "loop" /\ i >= 1) =>
             /\ Len(Calls("project")) = i
             /\ Content(latent_images) = Calls("project")[i].out
             /\ Content(latent_images) =
                   project(collab.proj, Calls("project")[i].in))
    /\ []((pc = "in_step" /\ k = 0 /\ i >= 1) =>
             Content(latent_images) = Calls("project")[i].out)

C15_Witness ==
    /\ pc = "in_step"
    /\ k = 0
    /\ i = 1
    /\ collab.proj = "negate"
    /\ Calls("project")[1].in # Calls("step")[1].in
    /\ Calls("project")[1].out # Calls("project")[1].in
    /\ Content(latent_images) = Calls("project")[1].out
\* what a running call still has to do: steps left in the iteration, plus a
\* full iteration for each one not yet begun
IterationWork == 2 * collab.closure_calls + 4
Measure ==
    CASE pc = "init_params"    -> (num_steps + 1) * IterationWork + 2
      [] pc = "init_optimizer" -> (num_steps + 1) * IterationWork + 1
      [] pc = "loop"           -> (num_steps - i) * IterationWork + 2 * collab.closure_calls + 3
      [] pc = "in_step"        -> (num_steps - i) * IterationWork + 2 * (collab.closure_calls - k) + 2
      [] pc = "update"         -> (num_steps - i) * IterationWork + 2 * (collab.closure_calls - k) + 3
      [] pc = "project"        -> (num_steps - i) * IterationWork + 1
      [] OTHER                 -> 0

Ended == pc \in {"idle", "done", "raised"}

\* termination itself, for a call whose steps are taken (FairSpec): a call
\* that has started ends
RestoreTerminates == [](~Ended => <>Ended)

\* C16: a restore call that has started can always take a step, and each
\* step brings it closer to its end, so it ends; it ends at DONE after
\* exactly num_steps iterations unless a collaborator raised, having gone
\* through step 1, projection 1, step 2, projection 2, ... in that order,
\* and after DONE that call makes no further step or projection.
C16_TerminatesSingleShot ==
    /\ [](~Ended => (Measure > 0 /\ ENABLED Running))
    /\ [][~Ended => (callNo' = callNo /\ Measure' < Measure)]_vars
    /\ [](pc = "raised" => log[Len(log)].raised)
    /\ [](pc = "done" =>
             /\ i = num_steps
             /\ Len(StepsAndProjections) = 2 * num_steps
             /\ \A n \in 1..num_steps :
                   /\ StepsAndProjections[2 * n - 1].op = "step"
                   /\ StepsAndProjections[2 * n - 1].out = n
                   /\ StepsAndProjections[2 * n].op = "project")
    /\ [][pc = "done" => (callNo' = callNo + 1 /\ Len(log') = 1)]_vars

C16_Witness ==
    /\ pc = "done"
    /\ num_steps = 2
    /\ i = 2
    /\ collab.closure_calls = 2
    /\ Len(StepsAndProjections) = 4
    /\ callNo = 2
====
